---- MODULE Spec2Model ----
(***************************************************************************)
(* GenBanana (src/index.tsx): the generation workflow of the page and its  *)
(* two pure helpers, the placeholder dimensions and the download filename. *)
(*                                                                         *)
(* JavaScript runs one handler at a time, so every action below is one     *)
(* run-to-completion step: from an event to the await of the remote call   *)
(* (or to the handler's return), and from the settlement of the remote     *)
(* call to the end of generateImage.                                       *)
(*                                                                         *)
(* A string the code takes apart (the prompt) is a sequence of one-        *)
(* character strings; the other texts are kept whole.                      *)
(***************************************************************************)
EXTENDS Integers, Sequences, FiniteSets, TLC

VARIABLES
    promptInput,        \* promptInput.value
    aspectRatioSelect,  \* aspectRatioSelect.value, "w:h" as <<w, h>>
    dom,                \* imageDisplayArea, generateBtn and errorMessage
    inv,                \* the invocations of generateImage, in the order they started
    delivered,          \* the last settlement of a remote call: whose, and with what
    request             \* the request handed to the remote capability last

vars == <<promptInput, aspectRatioSelect, dom, inv, delivered, request>>

(***************************************************************************)
(* Bounds.                                                                 *)
(***************************************************************************)
MaxInvocations == 2     \* invocations of generateImage in one behaviour
MaxCandidates == 2      \* candidates of a response
MaxParts == 2           \* content parts of a candidate
MaxUnit == 16           \* ordinary ratio units range over 1..MaxUnit
MaxPrefix == 2          \* varied leading characters of a long prompt
MaxPad == 31            \* repeated trailing characters of a long prompt

(***************************************************************************)
(* Program constants.                                                      *)
(***************************************************************************)
MAX_DIMENSION == 512
FilenameLength == 30

(***************************************************************************)
(* Texts.                                                                  *)
(***************************************************************************)
EnterPromptMessage == <<"Please enter a prompt.">>
NoImageMessage ==
    <<"The model did not return an image. Please try a different prompt.">>
ErrorOccurred(message) == <<"An error occurred: ", message>>
CanvasContextError == "Could not get canvas context"
PartsOfUndefinedError == "Cannot read properties of undefined (reading 'parts')"
RemoteErrors == {"Failed to fetch"}
AspectInstruction == ". Do not change the input aspect ratio."

(***************************************************************************)
(* The display area's content.                                             *)
(***************************************************************************)
Placeholder == [kind |-> "placeholder"]
Loader == [kind |-> "loader"]
NoImage == [kind |-> "none"]

\* Math.floor of n / d
RoundFloor(n, d) == n \div d

(***************************************************************************)
(* Math.round of n / d: the nearest integer, a half rounding up;           *)
(* n >= 0, d > 0.                                                          *)
(***************************************************************************)
Round(n, d) == (2 * n + d) \div (2 * d)

(***************************************************************************)
(* generatePlaceholderImage: the canvas's width and height for a ratio.    *)
(* The payload returned is the PNG of the blank canvas, which its size     *)
(* determines, so the size stands for it.                                  *)
(***************************************************************************)
generatePlaceholderImage(aspectRatio) ==
    LET widthRatio == aspectRatio[1]
        heightRatio == aspectRatio[2]
    IN  IF widthRatio >= heightRatio
        THEN [width |-> MAX_DIMENSION,
              height |-> Round(MAX_DIMENSION * heightRatio, widthRatio)]
        ELSE [width |-> Round(MAX_DIMENSION * widthRatio, heightRatio),
              height |-> MAX_DIMENSION]

(***************************************************************************)
(* The download filename of displayImage.                                  *)
(***************************************************************************)
Lower == {"a", "b", "c", "d", "e", "f", "g", "h", "i", "j", "k", "l", "m",
          "n", "o", "p", "q", "r", "s", "t", "u", "v", "w", "x", "y", "z"}
Upper == {"A", "B", "C", "D", "E", "F", "G", "H", "I", "J", "K", "L", "M",
          "N", "O", "P", "Q", "R", "S", "T", "U", "V", "W", "X", "Y", "Z"}
Digit == {"0", "1", "2", "3", "4", "5", "6", "7", "8", "9"}

\* /[^a-z0-9]/gi
MatchesNonAlnum(c) == c \notin (Lower \cup Upper \cup Digit)

\* altText.substring(0, n)
Substring0(s, n) == SubSeq(s, 1, IF Len(s) < n THEN Len(s) ELSE n)

\* s.replace(/[^a-z0-9]/gi, '_')
ReplaceNonAlnum(s) == [k \in 1..Len(s) |-> IF MatchesNonAlnum(s[k]) THEN "_" ELSE s[k]]

DefaultFilename == <<"g", "e", "n", "b", "a", "n", "a", "n", "a", "-", "a", "r", "t">>
PngSuffix == <<".", "p", "n", "g">>

\* without substring(0, 30)
SafeFilenameUntruncated(altText) ==
    LET s == ReplaceNonAlnum(altText)
    IN  IF s = <<>> THEN DefaultFilename ELSE s

SafeFilename(altText) ==
    LET s == ReplaceNonAlnum(Substring0(altText, FilenameLength))
    IN  IF s = <<>> THEN DefaultFilename ELSE s

(***************************************************************************)
(* The DOM functions, as functions of the DOM state d.                     *)
(***************************************************************************)
showError(d, message) ==
    IF message # <<>>
    THEN [d EXCEPT !.errorMessage = [textContent |-> message, display |-> "block"]]
    ELSE [d EXCEPT !.errorMessage = [textContent |-> <<>>, display |-> "none"]]

clearOutput(d) ==
    [d EXCEPT !.imageDisplayArea =
        [innerHTML |-> Placeholder, classList |-> @.classList \ {"has-image"}]]

setLoading(d, isLoading) ==
    IF isLoading
    THEN LET c == clearOutput(d)
         IN  [c EXCEPT !.imageDisplayArea =
                            [innerHTML |-> Loader,
                             classList |-> @.classList \cup {"loading"}],
                       !.generateBtn = [disabled |-> TRUE]]
    ELSE LET r == IF /\ "loading" \in d.imageDisplayArea.classList
                     /\ "has-image" \notin d.imageDisplayArea.classList
                  THEN clearOutput(d) ELSE d
         IN  [r EXCEPT !.imageDisplayArea.classList = @ \ {"loading"},
                       !.generateBtn = [disabled |-> FALSE]]

ImageElement(base64Data, mimeType, altText) ==
    [kind |-> "image",
     src |-> <<"data:", mimeType, ";base64,", base64Data>>,
     alt |-> altText,
     download |-> SafeFilename(altText) \o PngSuffix]

displayImage(d, base64Data, mimeType, altText) ==
    [d EXCEPT !.imageDisplayArea =
        [innerHTML |-> ImageElement(base64Data, mimeType, altText),
         classList |-> @.classList \cup {"has-image"}]]

(***************************************************************************)
(* What the remote capability can answer.  A part carries inline data or   *)
(* text; a candidate carries content or, when generation was stopped, only *)
(* a finish reason; a response carries candidates or, when the prompt was  *)
(* blocked, only the prompt feedback.                                      *)
(***************************************************************************)
TextPart == [text |-> "commentary"]
InlinePart(data, mimeType) == [inlineData |-> [data |-> data, mimeType |-> mimeType]]
Parts == {TextPart, InlinePart("AAAA", "image/png"), InlinePart("BBBB", "image/jpeg")}

SeqsUpTo(S, n) == UNION {[1..k -> S] : k \in 0..n}

NoContentCandidate == [finishReason |-> "SAFETY"]
Candidates ==
    {[content |-> [parts |-> ps]] : ps \in SeqsUpTo(Parts, MaxParts)}
        \cup {NoContentCandidate}

NoCandidatesResponse == [promptFeedback |-> "blocked"]
Responses ==
    {[candidates |-> cs] : cs \in SeqsUpTo(Candidates, MaxCandidates)}
        \cup {NoCandidatesResponse}

\* The answers the workflow's specification draws from: one of each shape.
WorkflowResponses ==
    { NoCandidatesResponse,
      [candidates |-> <<>>],
      [candidates |-> <<NoContentCandidate>>],
      [candidates |-> <<[content |-> [parts |-> <<TextPart>>]]>>],
      [candidates |-> <<[content |-> [parts |->
            <<TextPart, InlinePart("AAAA", "image/png")>>]]>>],
      [candidates |-> <<[content |-> [parts |->
            <<InlinePart("BBBB", "image/jpeg"), TextPart>>]]>>] }

HasCandidates(response) ==
    /\ "candidates" \in DOMAIN response
    /\ Len(response.candidates) > 0

(***************************************************************************)
(* The loop over the first candidate's parts: the index of the part the    *)
(* loop breaks at, 0 when it runs to the end.                              *)
(***************************************************************************)
RECURSIVE ScanFrom(_, _)
ScanFrom(parts, k) ==
    IF k > Len(parts) THEN 0
    ELSE IF "inlineData" \in DOMAIN parts[k] THEN k
    ELSE ScanFrom(parts, k + 1)

\* a loop without the break: the last part carrying inline data wins
RECURSIVE ScanLastFrom(_, _)
ScanLastFrom(parts, k) ==
    IF k < 1 THEN 0
    ELSE IF "inlineData" \in DOMAIN parts[k] THEN k
    ELSE ScanLastFrom(parts, k - 1)

FirstInlineLast(parts) == ScanLastFrom(parts, Len(parts))

FirstInline(parts) == ScanFrom(parts, 1)

\* the flag never set
HasImageOutputNever(k) == FALSE

\* hasImageOutput after the loop that broke at part k (0: it did not break)
HasImageOutput(k) == k > 0

(***************************************************************************)
(* generateImage from the catch clause on: the error is shown, and the     *)
(* finally clause clears the loading state.                                *)
(***************************************************************************)
Caught(d, message) ==
    [dom |-> setLoading(showError(d, ErrorOccurred(message)), FALSE),
     effects |-> {"error"},
     img |-> NoImage]

(***************************************************************************)
(* generateImage after the await, the remote call having resolved.         *)
(***************************************************************************)
Resolved(d, response, promptText) ==
    IF HasCandidates(response) /\ "content" \notin DOMAIN response.candidates[1]
    THEN Caught(d, PartsOfUndefinedError)
    ELSE LET parts == IF HasCandidates(response)
                      THEN response.candidates[1].content.parts ELSE <<>>
             k == FirstInline(parts)
             shown == IF k > 0
                      THEN ImageElement(parts[k].inlineData.data,
                                        parts[k].inlineData.mimeType, promptText)
                      ELSE NoImage
             d1 == IF k > 0
                   THEN displayImage(d, parts[k].inlineData.data,
                                     parts[k].inlineData.mimeType, promptText)
                   ELSE d
             d2 == IF ~HasImageOutput(k) THEN showError(d1, NoImageMessage) ELSE d1
         IN  [dom |-> setLoading(d2, FALSE),
              effects |-> (IF k > 0 THEN {"image"} ELSE {})
                            \cup (IF ~HasImageOutput(k) THEN {"noimage"} ELSE {}),
              img |-> shown]

(***************************************************************************)
(* The invocations.                                                        *)
(***************************************************************************)
NoRequest == [sent |-> FALSE]

\* the contents of the generateContent call
Request(promptText, placeholderBase64) ==
    [sent |-> TRUE,
     text |-> promptText \o <<AspectInstruction>>,
     inlineData |-> [mimeType |-> "image/png", data |-> placeholderBase64]]

\* called: the invocation reached the remote call; effects: which of
\* displayImage, showError(no image) and showError(error) it called;
\* img: the image it handed to displayImage
Invocation(promptText, status, called, effects, img) ==
    [promptText |-> promptText, status |-> status, called |-> called,
     effects |-> effects, img |-> img]

Pending == {i \in 1..Len(inv) : inv[i].status = "awaiting"}

NothingDelivered == [id |-> 0, response |-> NoCandidatesResponse]

(***************************************************************************)
(* generateImage up to the await (or to its return).                       *)
(*   ctx: whether canvas.getContext('2d') gave a context.                  *)
(***************************************************************************)
generateImage(ctx) ==
    LET promptText == promptInput
    IN  IF promptText = <<>>
        THEN /\ dom' = showError(dom, EnterPromptMessage)
             /\ inv' = Append(inv, Invocation(promptText, "done", FALSE,
                                              {"error"}, NoImage))
             /\ UNCHANGED request
        ELSE LET aspectRatio == aspectRatioSelect
                 d == showError(setLoading(dom, TRUE), <<>>)
             IN  IF ~ctx
                 THEN LET c == Caught(d, CanvasContextError)
                      IN  /\ dom' = c.dom
                          /\ inv' = Append(inv, Invocation(promptText, "done",
                                                FALSE, c.effects, c.img))
                          /\ UNCHANGED request
                 ELSE LET placeholderBase64 == generatePlaceholderImage(aspectRatio)
                      IN  /\ dom' = d
                          /\ request' = Request(promptText, placeholderBase64)
                          /\ inv' = Append(inv, Invocation(promptText, "awaiting",
                                                TRUE, {}, NoImage))

(***************************************************************************)
(* The user's actions.                                                     *)
(***************************************************************************)
Prompts == {<<>>, <<" ">>, <<"H", "i", "!">>}
Ratios == {<<1, 1>>, <<16, 9>>, <<9, 16>>}

TypePrompt ==
    /\ \E p \in Prompts : promptInput' = p
    /\ promptInput' # promptInput
    /\ UNCHANGED <<aspectRatioSelect, dom, inv, delivered, request>>

SelectRatio ==
    /\ \E r \in Ratios : aspectRatioSelect' = r
    /\ aspectRatioSelect' # aspectRatioSelect
    /\ UNCHANGED <<promptInput, dom, inv, delivered, request>>

\* a click reaches the listener only while the button is enabled
ClickGenerate(limit) ==
    /\ Len(inv) < limit
    /\ ~dom.generateBtn.disabled
    /\ \E ctx \in BOOLEAN : generateImage(ctx)
    /\ UNCHANGED <<promptInput, aspectRatioSelect, delivered>>

\* Enter without Shift in the prompt input
PressEnter(limit) ==
    /\ Len(inv) < limit
    /\ \E ctx \in BOOLEAN : generateImage(ctx)
    /\ UNCHANGED <<promptInput, aspectRatioSelect, delivered>>

(***************************************************************************)
(* The remote call of invocation i settles.                                *)
(***************************************************************************)
Finish(i, r) ==
    /\ dom' = r.dom
    /\ inv' = [inv EXCEPT ![i] = Invocation(@.promptText, "done", @.called,
                                            r.effects, r.img)]

Resolve(i, response) ==
    /\ i \in Pending
    /\ Finish(i, Resolved(dom, response, inv[i].promptText))
    /\ delivered' = [id |-> i, response |-> response]
    /\ UNCHANGED <<promptInput, aspectRatioSelect, request>>

Reject(i, message) ==
    /\ i \in Pending
    /\ Finish(i, Caught(dom, message))
    /\ UNCHANGED <<promptInput, aspectRatioSelect, delivered, request>>

(***************************************************************************)
(* The workflow.                                                           *)
(***************************************************************************)
InitDom ==
    [imageDisplayArea |-> [innerHTML |-> Placeholder, classList |-> {}],
     generateBtn |-> [disabled |-> FALSE],
     errorMessage |-> [textContent |-> <<>>, display |-> "none"]]

Init ==
    /\ promptInput = <<>>
    /\ aspectRatioSelect = <<1, 1>>
    /\ dom = InitDom
    /\ inv = <<>>
    /\ delivered = NothingDelivered
    /\ request = NoRequest

Next ==
    \/ TypePrompt
    \/ SelectRatio
    \/ ClickGenerate(MaxInvocations)
    \/ PressEnter(MaxInvocations)
    \/ \E i \in Pending, response \in WorkflowResponses : Resolve(i, response)
    \/ \E i \in Pending, message \in RemoteErrors : Reject(i, message)

Spec == Init /\ [][Next]_vars

(***************************************************************************)
(* One invocation from the initial page, the answer drawn from responses.  *)
(***************************************************************************)
Single(responses) ==
    \/ ClickGenerate(1)
    \/ PressEnter(1)
    \/ \E i \in Pending, response \in responses : Resolve(i, response)
    \/ \E i \in Pending, message \in RemoteErrors : Reject(i, message)

(***************************************************************************)
(* The handling of a response, over every response within the bounds.      *)
(***************************************************************************)
InitScan ==
    /\ promptInput = <<"H", "i", "!">>
    /\ aspectRatioSelect \in Ratios
    /\ dom = InitDom
    /\ inv = <<>>
    /\ delivered = NothingDelivered
    /\ request = NoRequest

NextScan == Single(Responses)

SpecScan == InitScan /\ [][NextScan]_vars

(***************************************************************************)
(* The placeholder's dimensions, over ratios of ordinary units and of the  *)
(* units around 2 * MAX_DIMENSION, where the scaled side rounds to 0.      *)
(***************************************************************************)
Units == (1..MaxUnit) \cup {2 * MAX_DIMENSION, 2 * MAX_DIMENSION + 1}
WideRatios == Units \X Units

InitDim ==
    /\ promptInput = <<"H", "i", "!">>
    /\ aspectRatioSelect \in WideRatios
    /\ dom = InitDom
    /\ inv = <<>>
    /\ delivered = NothingDelivered
    /\ request = NoRequest

NextDim == Single(WorkflowResponses)

SpecDim == InitDim /\ [][NextDim]_vars

(***************************************************************************)
(* displayImage as a function of its alt text: short texts of varied      *)
(* characters, followed by a run of one character that takes the text      *)
(* past FilenameLength.                                                    *)
(***************************************************************************)
NameChars == {"a", "Z", "7", " ", "!", "_"}
PadChars == {"x", "."}
Camaro == <<"A", " ", "y", "e", "l", "l", "o", "w", " ",
            "c", "a", "m", "a", "r", "o", "!", "!">>
AltTexts ==
    {pre \o [k \in 1..n |-> c] :
        pre \in SeqsUpTo(NameChars, MaxPrefix), c \in PadChars, n \in 0..MaxPad}
        \cup {Camaro}

InitName ==
    /\ promptInput \in AltTexts
    /\ aspectRatioSelect = <<1, 1>>
    /\ dom = InitDom
    /\ inv = <<>>
    /\ delivered = NothingDelivered
    /\ request = NoRequest

ShowImage ==
    /\ \E part \in {p \in Parts : "inlineData" \in DOMAIN p} :
          dom' = displayImage(dom, part.inlineData.data, part.inlineData.mimeType,
                              promptInput)
    /\ UNCHANGED <<promptInput, aspectRatioSelect, inv, delivered, request>>

NextName == ShowImage

SpecName == InitName /\ [][NextName]_vars

(***************************************************************************)
(*                              The claims                                 *)
(***************************************************************************)
Whitespace == {" "}
IsBlank(s) == \A k \in 1..Len(s) : s[k] \in Whitespace
Done == {i \in 1..Len(inv) : inv[i].status = "done"}
Called == {i \in 1..Len(inv) : inv[i].called}
Area == dom.imageDisplayArea
Busy == dom.generateBtn.disabled /\ "loading" \in Area.classList
CarriesInline(part) == "inlineData" \in DOMAIN part
Max(a, b) == IF a >= b THEN a ELSE b
Min(a, b) == IF a <= b THEN a ELSE b
Abs(a) == IF a >= 0 THEN a ELSE 0 - a

\* C1: an invocation whose prompt is empty or only whitespace makes no remote
\* call and ends with the 'Please enter a prompt.' error; the remote call is
\* reached only with a prompt that is non-empty after trimming.
C1_BlankPromptMakesNoCall ==
    \A i \in 1..Len(inv) :
        IsBlank(inv[i].promptText) =>
            /\ ~inv[i].called
            /\ inv[i].status = "done"
            /\ inv[i].effects = {"error"}

\* C2: at most one remote generation request is in flight in every state.
C2_AtMostOneInFlight == Cardinality(Pending) <= 1

\* C3: the busy state (button disabled, display area loading) holds in every
\* state in which a remote call is pending, and is cleared when none is.
C3_BusyExactlyWhilePending ==
    /\ Pending # {} => Busy
    /\ Pending = {} => ~dom.generateBtn.disabled /\ "loading" \notin Area.classList

\* C4: every invocation that has completed made exactly one of the three
\* outcomes (image rendered, 'no image' message, error message); after a lone
\* invocation the page shows exactly one of them.
C4_ExactlyOneOutcome ==
    /\ \A i \in Done : Cardinality(inv[i].effects) = 1
    /\ (Len(inv) = 1 /\ Done = {1}) =>
          LET image == Area.innerHTML.kind = "image"
              noimage == dom.errorMessage.textContent = NoImageMessage
              error == dom.errorMessage.textContent \notin {<<>>, NoImageMessage}
          IN  /\ image \/ noimage \/ error
              /\ ~(image /\ noimage) /\ ~(image /\ error) /\ ~(noimage /\ error)
              /\ image <=> inv[1].effects = {"image"}
              /\ noimage <=> inv[1].effects = {"noimage"}
              /\ error <=> inv[1].effects = {"error"}

C4_Witness ==
    /\ Len(inv) = 2 /\ Done = {1, 2} /\ Called = {1, 2}
    /\ inv[1].effects = {"image"}
    /\ inv[2].effects = {"error"}

\* C5: when the response has a candidate, the image displayed is the payload
\* and mime type of the lowest-indexed part of the first candidate that
\* carries inline data; parts after it and later candidates have no effect
\* (no image is displayed when the first candidate has no such part).
C5_FirstMatchWins ==
    (delivered.id # 0 /\ HasCandidates(delivered.response)) =>
        LET first == delivered.response.candidates[1]
            parts == IF "content" \in DOMAIN first THEN first.content.parts ELSE <<>>
            hits == {k \in 1..Len(parts) : CarriesInline(parts[k])}
        IN  IF hits = {}
            THEN Area.innerHTML.kind # "image"
            ELSE \E k \in hits :
                    /\ \A j \in hits : k <= j
                    /\ Area.innerHTML.kind = "image"
                    /\ Area.innerHTML.src =
                         <<"data:", parts[k].inlineData.mimeType, ";base64,",
                           parts[k].inlineData.data>>
                    /\ inv[delivered.id].img = Area.innerHTML

C5_Witness ==
    /\ delivered.id # 0
    /\ delivered.response =
         [candidates |->
            << [content |-> [parts |-> <<InlinePart("BBBB", "image/jpeg"),
                                         InlinePart("AAAA", "image/png")>>]],
               [content |-> [parts |-> <<InlinePart("AAAA", "image/png")>>]] >>]
    /\ Area.innerHTML.kind = "image"
    /\ Area.innerHTML.src = <<"data:", "image/jpeg", ";base64,", "BBBB">>

\* C6: a response without candidates, or whose first candidate has no part
\* carrying inline data, gives the 'model did not return an image' message and
\* never the 'An error occurred' path.
C6_NoImageIsEmptyResult ==
    LET r == delivered.response
        none == \/ ~HasCandidates(r)
                \/ "content" \notin DOMAIN r.candidates[1]
                \/ \A k \in 1..Len(r.candidates[1].content.parts) :
                       ~CarriesInline(r.candidates[1].content.parts[k])
    IN  (delivered.id # 0 /\ none) =>
            /\ inv[delivered.id].effects = {"noimage"}
            /\ dom.errorMessage.textContent = NoImageMessage

\* C7: for a ratio w:h of positive units the side of the larger unit is exactly
\* MAX_DIMENSION (the width when w >= h, the height otherwise) and the other
\* side is MAX_DIMENSION * smaller / larger rounded to the nearest integer;
\* 16:9 gives (512, 288), 9:16 gives (288, 512), 1:1 gives (512, 512).
C7_PlaceholderDimensions ==
    request.sent =>
        LET w == aspectRatioSelect[1]
            h == aspectRatioSelect[2]
            c == request.inlineData.data
            other == IF w >= h THEN c.height ELSE c.width
        IN  /\ w >= h => c.width = MAX_DIMENSION
            /\ w < h => c.height = MAX_DIMENSION
            /\ Max(c.width, c.height) = MAX_DIMENSION
            /\ 2 * Abs(other * Max(w, h) - MAX_DIMENSION * Min(w, h)) <= Max(w, h)
            /\ aspectRatioSelect = <<16, 9>> => c = [width |-> 512, height |-> 288]
            /\ aspectRatioSelect = <<9, 16>> => c = [width |-> 288, height |-> 512]
            /\ aspectRatioSelect = <<1, 1>> => c = [width |-> 512, height |-> 512]

C7_Witness ==
    /\ request.sent
    /\ aspectRatioSelect = <<16, 9>>
    /\ request.inlineData.data = [width |-> 512, height |-> 288]

\* C8: for a ratio of positive integer units both pixel dimensions of the
\* placeholder are at least 1.
C8_DimensionsAtLeastOne ==
    request.sent =>
        /\ request.inlineData.data.width >= 1
        /\ request.inlineData.data.height >= 1

\* C9: the download filename is the first 30 characters of the prompt, every
\* character outside [A-Za-z0-9] replaced by '_', followed by '.png'; the
\* default base 'genbanana-art' is used exactly when that base is empty;
\* 'A yellow camaro!!' gives the base 'A_yellow_camaro__'.
C9_DownloadFilename ==
    Area.innerHTML.kind = "image" =>
        LET alt == Area.innerHTML.alt
            name == Area.innerHTML.download
            n == Min(Len(alt), 30)
            sanitized == [k \in 1..n |->
                            IF alt[k] \in (Lower \cup Upper \cup Digit)
                            THEN alt[k] ELSE "_"]
            base == SubSeq(name, 1, Len(name) - 4)
        IN  /\ alt = promptInput
            /\ Len(name) > 4
            /\ SubSeq(name, Len(name) - 3, Len(name)) = <<".", "p", "n", "g">>
            /\ sanitized # <<>> => base = sanitized
            /\ base = DefaultFilename <=> sanitized = <<>>
            /\ alt = Camaro =>
                 base = <<"A", "_", "y", "e", "l", "l", "o", "w", "_",
                          "c", "a", "m", "a", "r", "o", "_", "_">>

C9_Witness ==
    /\ Area.innerHTML.kind = "image"
    /\ Len(Area.innerHTML.alt) > 30
    /\ Area.innerHTML.alt[1] = "!"
    /\ Len(Area.innerHTML.download) = 34
    /\ Area.innerHTML.download[1] = "_"

\* C10: once no remote request is pending, the display area reflects the most
\* recently started remote request: never the loader, and an image only if
\* that request returned one, and then that request's image.
C10_DisplayReflectsLastRequest ==
    (Pending = {} /\ Called # {}) =>
        LET last == CHOOSE i \in Called : \A j \in Called : j <= i
        IN  /\ Area.innerHTML # Loader
            /\ Area.innerHTML.kind = "image" => Area.innerHTML = inv[last].img

====
